---- MODULE Spec2Model ----
(***************************************************************************)
(* A model of logripper (src/logripper.py): LogStream cursors, the         *)
(* recursive container traversal, the k-way merge of iterate_through_logs  *)
(* and the time range filter of rip.                                       *)
(*                                                                         *)
(* Text.  A decoded line is a sequence of tokens.  "x" is a character that *)
(* is no part of a timestamp, "nl" the line terminator, and every other    *)
(* token one maximal substring that iso_re matches: "T0", "T1", "T2" are   *)
(* timestamps written in UTC, "T1z" is the instant of "T1" written with    *)
(* another zone offset, and "BAD" is a substring the regular expression    *)
(* matches but dateutil rejects (month 13, say) with a ValueError.         *)
(* A file's text is the sequence of its lines; only its last line may lack *)
(* the terminator.                                                         *)
(***************************************************************************)
EXTENDS Integers, Sequences, FiniteSets, TLC

VARIABLES
    fs,            \* the input tree: logical path -> node
    filepaths,     \* rip's roots, in the order given
    ignore_list,   \* the ignore patterns
    gc,            \* the interpreter: "refcount" finalizes an object as soon
                   \* as nothing refers to it, "deferred" not within the run
    paths,         \* recurse_in_filesystem: the sorted list `paths`
    pidx,          \* recurse_in_filesystem: the place of its loop in `paths`
    result,        \* recurse_in_filesystem: the list `result` (identities)
    stack,         \* the frames of recurse, the innermost last
    handles,       \* every handle opened so far, in the order opened
    objs,          \* every LogStream constructed so far, by identity (index)
    streams,       \* iterate_through_logs: the list `streams` (identities)
    oldest,        \* iterate_through_logs: the local `oldest` (0: unset)
    timestamp,     \* iterate_through_logs: the local `timestamp`
    emitted,       \* the records iterate_through_logs has yielded
    printed,       \* the rows rip has printed
    start_time,    \* rip's parameters
    end_time,
    pc,            \* where the program is
    exc            \* the exception that ended the run ("none": none)

travVars == <<fs, filepaths, ignore_list, gc, paths, pidx, result, stack,
              handles>>

vars == <<fs, filepaths, ignore_list, gc, paths, pidx, result, stack, handles,
          objs, streams, oldest, timestamp, emitted, printed,
          start_time, end_time, pc, exc>>

----------------------------------------------------------------------------
(* Bounds of the model. *)

\* Longest line body (tokens before the terminator) of the cursor specification.
MaxLineLen == 2

\* Most lines the streams handed to the merge hold together.
MaxTotalLines == 4

----------------------------------------------------------------------------
(* Instants, parse_date and isoformat. *)

\* Python's None as the value of current_time.
NoneTime == -1

\* The look-ahead budget: the default of `lines` in LogStream.__init__.
DefaultLines == 10

\* min_date and max_date, as years: datetime.MINYEAR and datetime.MAXYEAR.
min_date == 1
max_date == 9999

\* The instants the timestamps of the model denote, as years.
Instants == {2000, 2001, 2002}

\* The substrings iso_re matches.
TimestampTexts == {"T0", "T1", "T1z", "T2", "BAD"}

\* dateutil.parser.parse raises ParserError, a ValueError, on these.
parse_date_raises(s) == s = "BAD"

parse_date(s) ==
    CASE s = "T0" -> 2000
      [] s = "T1" -> 2001
      [] s = "T1z" -> 2001
      [] s = "T2" -> 2002

\* datetime.isoformat() of an aware instant.
isoformat(t) ==
    CASE t = 2000 -> "T0"
      [] t = 2001 -> "T1"
      [] t = 2002 -> "T2"

\* iso_re.search(line): the place of the first match, 0 when there is none.
iso_re_search(line) ==
    IF \E i \in 1..Len(line) : line[i] \in TimestampTexts
    THEN CHOOSE i \in 1..Len(line) :
            /\ line[i] \in TimestampTexts
            /\ \A j \in 1..(i - 1) : line[j] \notin TimestampTexts
    ELSE 0

\* str.strip(): leading and trailing whitespace removed.
RECURSIVE lstrip(_)
lstrip(line) ==
    IF Len(line) > 0 /\ line[1] = "nl" THEN lstrip(Tail(line)) ELSE line

RECURSIVE rstrip(_)
rstrip(line) ==
    IF Len(line) > 0 /\ line[Len(line)] = "nl"
    THEN rstrip(SubSeq(line, 1, Len(line) - 1))
    ELSE line

strip(line) == rstrip(lstrip(line))

----------------------------------------------------------------------------
(* LogStream.  reader is the TextIOWrapper: its text, the number of lines  *)
(* read from it, and whether it is closed.  raw and fresh are history: the *)
(* line the last reading peekline took from the reader, and whether the    *)
(* buffer still holds it.  closes counts the calls of close(), and kept     *)
(* tells whether open_as_log returned the stream.                          *)

\* TextIOWrapper.readline(): the next line, "" at the end of the text.
reader_readline(reader) ==
    IF reader.pos < Len(reader.text) THEN reader.text[reader.pos + 1] ELSE <<>>

reader_advance(reader) ==
    IF reader.pos < Len(reader.text)
    THEN [reader EXCEPT !.pos = reader.pos + 1]
    ELSE reader

\* The state of a LogStream when __init__ has set its fields (lines 82-85).
LogStream_fields(text, path) ==
    [ reader       |-> [text |-> text, pos |-> 0, closed |-> FALSE],
      path         |-> path,
      current_line |-> <<>>,
      current_time |-> NoneTime,
      raw          |-> <<>>,
      fresh        |-> FALSE,
      closes       |-> 0,
      kept         |-> FALSE ]

\* Whether peekline raises: reading a closed reader, or parse_date failing.
peekline_raises(s) ==
    /\ Len(s.current_line) = 0
    /\ \/ s.reader.closed
       \/ LET line == reader_readline(s.reader)
              m == iso_re_search(line)
          IN  m > 0 /\ parse_date_raises(line[m])

\* peekline with line 104 left out: a line without a timestamp leaves
\* current_time as the line before set it.
peekline_keeps_time(s) ==
    IF Len(s.current_line) = 0
    THEN IF s.reader.closed
         THEN s
         ELSE LET line == reader_readline(s.reader)
                  m == iso_re_search(line)
                  t == [s EXCEPT !.reader = reader_advance(s.reader),
                                 !.raw = line, !.fresh = TRUE]
              IN  IF m > 0
                  THEN IF parse_date_raises(line[m])
                       THEN [t EXCEPT !.current_line = line]
                       ELSE [t EXCEPT !.current_time = parse_date(line[m]),
                                      !.current_line =
                                          SubSeq(line, m + 1, Len(line))]
                  ELSE [t EXCEPT !.current_line = line]
    ELSE s

\* The stream after peekline (after its partial run when it raises).
peekline(s) ==
    IF Len(s.current_line) = 0
    THEN IF s.reader.closed
         THEN s
         ELSE LET line == reader_readline(s.reader)
                  m == iso_re_search(line)
                  t == [s EXCEPT !.reader = reader_advance(s.reader),
                                 !.raw = line, !.fresh = TRUE]
              IN  IF m > 0
                  THEN IF parse_date_raises(line[m])
                       THEN [t EXCEPT !.current_line = line]
                       ELSE [t EXCEPT !.current_time = parse_date(line[m]),
                                      !.current_line =
                                          SubSeq(line, m + 1, Len(line))]
                  ELSE [t EXCEPT !.current_line = line,
                                 !.current_time = NoneTime]
    ELSE s

\* What readline returns, and the stream after it.
readline_raises(s) == peekline_raises(s)

readline_result(s) ==
    IF Len(s.current_line) > 0 THEN s.current_line ELSE peekline(s).current_line

readline(s) ==
    IF readline_raises(s)
    THEN peekline(s)
    ELSE [(IF Len(s.current_line) > 0 THEN s ELSE peekline(s))
             EXCEPT !.current_line = <<>>, !.fresh = FALSE]

close(s) ==
    [s EXCEPT !.reader.closed = TRUE, !.closes = s.closes + 1]

\* LogStream.__init__: [stream, raised]. The look-ahead loop of lines 89-92.
RECURSIVE look_ahead(_, _)
look_ahead(s, lines) ==
    IF Len(s.current_line) > 0 /\ s.current_time = NoneTime /\ lines > 0
    THEN LET r == readline(s)
         IN  IF peekline_raises(r)
             THEN [stream |-> peekline(r), raised |-> TRUE]
             ELSE look_ahead(peekline(r), lines - 1)
    ELSE [stream |-> s, raised |-> FALSE]

\* __init__ with the loop running one round more than `lines`.
LogStream_init_one_more(text, path, lines) ==
    LET s == LogStream_fields(text, path)
    IN  IF peekline_raises(s)
        THEN [stream |-> peekline(s), raised |-> TRUE]
        ELSE look_ahead(peekline(s), lines + 1)

LogStream_init(text, path, lines) ==
    LET s == LogStream_fields(text, path)
    IN  IF peekline_raises(s)
        THEN [stream |-> peekline(s), raised |-> TRUE]
        ELSE look_ahead(peekline(s), lines)

----------------------------------------------------------------------------
(* The merge: remove_finished_streams and iterate_through_logs.            *)

\* The loop with the call of close() forgotten.
RECURSIVE rfs_loop_no_close(_, _, _)
rfs_loop_no_close(todo, o, res) ==
    IF todo = <<>>
    THEN [objs |-> o, result |-> res, raised |-> FALSE]
    ELSE LET id == Head(todo)
             s == o[id]
             p == peekline(s)
         IN  IF peekline_raises(s)
             THEN [objs |-> [o EXCEPT ![id] = p], result |-> res,
                   raised |-> TRUE]
             ELSE IF Len(p.current_line) > 0 /\ p.current_time # NoneTime
                  THEN rfs_loop_no_close(Tail(todo), [o EXCEPT ![id] = p],
                                         Append(res, id))
                  ELSE rfs_loop_no_close(Tail(todo), [o EXCEPT ![id] = p],
                                         res)

\* The loop with a peek that reads a line whatever the buffer holds.
RECURSIVE rfs_loop_rereads(_, _, _)
rfs_loop_rereads(todo, o, res) ==
    IF todo = <<>>
    THEN [objs |-> o, result |-> res, raised |-> FALSE]
    ELSE LET id == Head(todo)
             s == [o[id] EXCEPT !.current_line = <<>>]
             p == peekline(s)
         IN  IF peekline_raises(s)
             THEN [objs |-> [o EXCEPT ![id] = p], result |-> res,
                   raised |-> TRUE]
             ELSE IF Len(p.current_line) > 0 /\ p.current_time # NoneTime
                  THEN rfs_loop_rereads(Tail(todo), [o EXCEPT ![id] = p],
                                        Append(res, id))
                  ELSE rfs_loop_rereads(Tail(todo),
                                        [o EXCEPT ![id] = close(p)], res)

\* The loop of lines 229-234 over the identities `todo`, on the objects o.
RECURSIVE rfs_loop(_, _, _)
rfs_loop(todo, o, res) ==
    IF todo = <<>>
    THEN [objs |-> o, result |-> res, raised |-> FALSE]
    ELSE LET id == Head(todo)
             s == o[id]
             p == peekline(s)
         IN  IF peekline_raises(s)
             THEN [objs |-> [o EXCEPT ![id] = p], result |-> res,
                   raised |-> TRUE]
             ELSE IF Len(p.current_line) > 0 /\ p.current_time # NoneTime
                  THEN rfs_loop(Tail(todo), [o EXCEPT ![id] = p],
                                Append(res, id))
                  ELSE rfs_loop(Tail(todo), [o EXCEPT ![id] = close(p)],
                                res)

\* An insertion that places the element before those of equal key.
RECURSIVE insert_before_equal(_, _, _)
insert_before_equal(sorted, id, o) ==
    IF sorted = <<>>
    THEN <<id>>
    ELSE IF o[Head(sorted)].current_time < o[id].current_time
         THEN <<Head(sorted)>> \o insert_before_equal(Tail(sorted), id, o)
         ELSE <<id>> \o sorted

\* list.sort(key=current_time) is stable: an insertion sort that places each
\* element after those whose key is not greater.
RECURSIVE insert_by_time(_, _, _)
insert_by_time(sorted, id, o) ==
    IF sorted = <<>>
    THEN <<id>>
    ELSE IF o[Head(sorted)].current_time <= o[id].current_time
         THEN <<Head(sorted)>> \o insert_by_time(Tail(sorted), id, o)
         ELSE <<id>> \o sorted

\* A sort that leaves the list as it is.
sort_by_time_unsorted(list, o) == list

RECURSIVE sort_by_time(_, _)
sort_by_time(list, o) ==
    IF list = <<>>
    THEN <<>>
    ELSE insert_by_time(sort_by_time(SubSeq(list, 1, Len(list) - 1), o),
                        list[Len(list)], o)

\* remove_finished_streams without line 235: the streams that go on, in
\* the order they had.
remove_finished_streams_no_sort(list, o) == rfs_loop(list, o, <<>>)

remove_finished_streams(list, o) ==
    LET r == rfs_loop(list, o, <<>>)
    IN  IF r.raised
        THEN r
        ELSE [r EXCEPT !.result = sort_by_time(r.result, r.objs)]

\* The test with the end of the range included.
in_time_range_closed(start, t, end) == start <= t /\ t <= end

\* The test of line 264.
in_time_range(start, t, end) == start <= t /\ t < end

\* The body of rip's loop (lines 262-266) on one yielded record: the rows
\* printed so far, and the row of this record when it is in the range.
rip_body(rows, rec, start, end) ==
    LET line == strip(rec.line)
        t == parse_date(rec.timestamp)
    IN  IF in_time_range(start, t, end)
        THEN Append(rows, [timestamp |-> t, line |-> line, path |-> rec.path])
        ELSE rows

\* One record yielded by iterate_through_logs. src, lineno and cont are
\* history: the stream, the place of the line in its text, and whether the
\* record was yielded by the continuation loop.
yielded(stamp, line, s, id, cont) ==
    [ timestamp |-> stamp, line |-> line, path |-> s.path,
      src |-> id, lineno |-> s.reader.pos, cont |-> cont ]

\* Line 240: the first remove_finished_streams.
MergeStart ==
    /\ pc = "merge"
    /\ LET r == remove_finished_streams(streams, objs)
       IN  /\ objs' = r.objs
           /\ streams' = r.result
           /\ pc' = IF r.raised THEN "aborted" ELSE "loop"
           /\ exc' = IF r.raised THEN "ValueError" ELSE exc
    /\ UNCHANGED <<oldest, timestamp, emitted, printed, start_time, end_time>>
    /\ UNCHANGED travVars

\* Lines 241-246: the stream at the head of the list is read and its record
\* yielded to rip, which prints it when it is in the range.
Select ==
    /\ pc = "loop"
    /\ streams # <<>>
    /\ LET id == streams[1]
           s == objs[id]
           line == readline_result(s)
           after == readline(s)
           stamp == isoformat(after.current_time)
           rec == yielded(stamp, strip(line), after, id, FALSE)
       IN  /\ ~readline_raises(s)
           /\ oldest' = id
           /\ objs' = [objs EXCEPT ![id] = after]
           /\ timestamp' = stamp
           /\ emitted' = Append(emitted, rec)
           /\ printed' = rip_body(printed, rec, start_time, end_time)
    /\ pc' = "group"
    /\ UNCHANGED <<streams, start_time, end_time, exc>>
    /\ UNCHANGED travVars

\* Lines 250-254 with `if` for `while`: one continuation line is yielded, the
\* next line is peeked and remove_finished_streams follows at once.
Continuation_once ==
    /\ pc = "group"
    /\ ~peekline_raises(objs[oldest])
    /\ LET p == peekline(objs[oldest])
           line == readline_result(p)
           after == readline(p)
           rec == yielded(timestamp, line, after, oldest, TRUE)
           r == remove_finished_streams(streams,
                    [objs EXCEPT ![oldest] = peekline(after)])
       IN  /\ Len(p.current_line) > 0
           /\ p.current_time = NoneTime
           /\ ~peekline_raises(after)
           /\ objs' = r.objs
           /\ streams' = r.result
           /\ emitted' = Append(emitted, rec)
           /\ printed' = rip_body(printed, rec, start_time, end_time)
    /\ pc' = "loop"
    /\ UNCHANGED <<oldest, timestamp, start_time, end_time, exc>>
    /\ UNCHANGED travVars

\* Lines 250-254, the loop's body: the next line of oldest has no timestamp
\* and is yielded with the timestamp of the group.
Continuation ==
    /\ pc = "group"
    /\ ~peekline_raises(objs[oldest])
    /\ LET p == peekline(objs[oldest])
           line == readline_result(p)
           after == readline(p)
           rec == yielded(timestamp, line, after, oldest, TRUE)
       IN  /\ Len(p.current_line) > 0
           /\ p.current_time = NoneTime
           /\ objs' = [objs EXCEPT ![oldest] = after]
           /\ emitted' = Append(emitted, rec)
           /\ printed' = rip_body(printed, rec, start_time, end_time)
    /\ UNCHANGED <<streams, oldest, timestamp, start_time, end_time, pc, exc>>
    /\ UNCHANGED travVars

\* Lines 250-256, the loop's exit: the next line of oldest has a timestamp,
\* or there is none; then remove_finished_streams.
EndGroup ==
    /\ pc = "group"
    /\ ~peekline_raises(objs[oldest])
    /\ LET p == peekline(objs[oldest])
           r == remove_finished_streams(streams,
                                        [objs EXCEPT ![oldest] = p])
       IN  /\ ~(Len(p.current_line) > 0 /\ p.current_time = NoneTime)
           /\ objs' = r.objs
           /\ streams' = r.result
           /\ pc' = IF r.raised THEN "aborted" ELSE "loop"
           /\ exc' = IF r.raised THEN "ValueError" ELSE exc
    /\ UNCHANGED <<oldest, timestamp, emitted, printed, start_time, end_time>>
    /\ UNCHANGED travVars

\* Lines 250 and 254: peekline raises (parse_date rejects the matched text);
\* nothing catches it, and the run ends.
GroupRaises ==
    /\ pc = "group"
    /\ peekline_raises(objs[oldest])
    /\ objs' = [objs EXCEPT ![oldest] = peekline(objs[oldest])]
    /\ pc' = "aborted"
    /\ exc' = "ValueError"
    /\ UNCHANGED <<streams, oldest, timestamp, emitted, printed,
                   start_time, end_time>>
    /\ UNCHANGED travVars

\* Line 241: the list is empty, the generator and rip return.
Finish ==
    /\ pc = "loop"
    /\ streams = <<>>
    /\ pc' = "done"
    /\ UNCHANGED <<objs, streams, oldest, timestamp, emitted, printed,
                   start_time, end_time, exc>>
    /\ UNCHANGED travVars

\* The traversal's variables when the traversal is no part of the run.
NoTraversal ==
    /\ fs = <<>>
    /\ filepaths = <<>>
    /\ ignore_list = <<>>
    /\ gc = "deferred"
    /\ paths = <<>>
    /\ pidx = 0
    /\ result = <<>>
    /\ stack = <<>>
    /\ handles = <<>>

NextMerge ==
    \/ MergeStart
    \/ Select
    \/ Continuation
    \/ EndGroup
    \/ GroupRaises
    \/ Finish

----------------------------------------------------------------------------
(* The merge on its own: rip from line 261 on, handed the streams that     *)
(* open_as_log accepted for the files of one directory.                    *)

\* The names of the files, in the order recurse_in_filesystem finds them.
StreamNames == <<"a", "b">>

MergeTimestamps == {"T0", "T1", "T2"}

MergeLines ==
    {<<t, "x", "nl">> : t \in MergeTimestamps}
        \cup {<<"x", "nl">>, <<"BAD", "x", "nl">>}

\* The last line of a text may be a bare timestamp with no terminator.
MergeLastLines == MergeLines \cup {<<"T2">>}

TextsOfLen(n) ==
    IF n = 0
    THEN {<<>>}
    ELSE {[i \in 1..n |-> IF i < n THEN front[i] ELSE last] :
             front \in [1..(n - 1) -> MergeLines], last \in MergeLastLines}

\* The range of rip: everything, or [T1, T2).
TimeRanges == {<<min_date, max_date>>, <<2001, 2002>>}

\* The test of line 141 left out: every stream is returned whose
\* construction completes.
accepted_any(r) == ~r.raised

\* open_as_log keeps a stream whose construction found a timestamp
\* (lines 140-144).
accepted(r) == ~r.raised /\ r.stream.current_time # NoneTime

InitMerge ==
    /\ \E la \in 0..MaxTotalLines : \E lb \in 0..(MaxTotalLines - la) :
       \E ta \in TextsOfLen(la) : \E tb \in TextsOfLen(lb) :
          LET texts == <<ta, tb>>
              made == [i \in 1..2 |->
                         LogStream_init(texts[i], <<"top", StreamNames[i]>>,
                                        DefaultLines)]
              kept == SelectSeq(<<1, 2>>, LAMBDA i : accepted(made[i]))
          IN  /\ objs = [k \in 1..Len(kept) |->
                         [made[kept[k]].stream EXCEPT !.kept = TRUE]]
              /\ streams = [k \in 1..Len(kept) |-> k]
    /\ \E range \in TimeRanges :
          /\ start_time = range[1]
          /\ end_time = range[2]
    /\ NoTraversal
    /\ oldest = 0
    /\ timestamp = ""
    /\ emitted = <<>>
    /\ printed = <<>>
    /\ pc = "merge"
    /\ exc = "none"

SpecMerge == InitMerge /\ [][NextMerge]_vars

\* The merge driven to its end: rip's `for` (line 262) asks the generator
\* for its next record until it returns or raises, and nothing else runs.
\* The streams hold at most MaxLiveLines lines together and everything is in
\* the range.
MaxLiveLines == 3

RECURSIVE lines_held(_)
lines_held(o) ==
    IF o = <<>> THEN 0 ELSE Len(Head(o).reader.text) + lines_held(Tail(o))

InitLiveMerge ==
    /\ InitMerge
    /\ lines_held(objs) <= MaxLiveLines
    /\ start_time = min_date
    /\ end_time = max_date

LiveMerge == InitLiveMerge /\ [][NextMerge]_vars /\ WF_vars(NextMerge)

----------------------------------------------------------------------------
(* One LogStream on its own: peekline and readline called in any order on  *)
(* a stream whose fields __init__ has just set.                            *)

CursorTokens == {"x", "T0", "T1z", "BAD"}

CursorBodies == UNION {[1..k -> CursorTokens] : k \in 0..MaxLineLen}

CursorTerminated == {[i \in 1..(Len(b) + 1) |->
                         IF i <= Len(b) THEN b[i] ELSE "nl"] : b \in CursorBodies}

CursorLines == CursorTerminated \cup (CursorBodies \ {<<>>})

\* Texts of at most two lines.
CursorTexts ==
    {<<>>} \cup {<<l>> : l \in CursorLines}
           \cup {<<k, l>> : k \in CursorTerminated, l \in CursorLines}

CursorPeek ==
    /\ pc = "cursor"
    /\ ~peekline_raises(objs[1])
    /\ objs' = [objs EXCEPT ![1] = peekline(objs[1])]
    /\ UNCHANGED <<streams, oldest, timestamp, emitted, printed,
                   start_time, end_time, pc, exc>>
    /\ UNCHANGED travVars

CursorRead ==
    /\ pc = "cursor"
    /\ ~readline_raises(objs[1])
    /\ objs' = [objs EXCEPT ![1] = readline(objs[1])]
    /\ UNCHANGED <<streams, oldest, timestamp, emitted, printed,
                   start_time, end_time, pc, exc>>
    /\ UNCHANGED travVars

\* peekline, called directly or by readline, raises parse_date's ValueError.
CursorRaises ==
    /\ pc = "cursor"
    /\ peekline_raises(objs[1])
    /\ objs' = [objs EXCEPT ![1] = peekline(objs[1])]
    /\ pc' = "aborted"
    /\ exc' = "ValueError"
    /\ UNCHANGED <<streams, oldest, timestamp, emitted, printed,
                   start_time, end_time>>
    /\ UNCHANGED travVars

NextStream == CursorPeek \/ CursorRead \/ CursorRaises

InitStream ==
    /\ \E text \in CursorTexts : objs = <<LogStream_fields(text, <<"top", "a">>)>>
    /\ NoTraversal
    /\ streams = <<>>
    /\ oldest = 0
    /\ timestamp = ""
    /\ emitted = <<>>
    /\ printed = <<>>
    /\ start_time = min_date
    /\ end_time = max_date
    /\ pc = "cursor"
    /\ exc = "none"

SpecStream == InitStream /\ [][NextStream]_vars

----------------------------------------------------------------------------
(* The input tree.  A logical path is the sequence of its components; a    *)
(* node of the tree is a directory, an archive or any other file, on the   *)
(* filesystem or as an entry of an archive.                                *)
(*   kind     "dir", "zip", "tar" or "file";                               *)
(*   where    "fs" for a node of the filesystem, "zip" or "tar" for an     *)
(*            entry of an archive of that format;                          *)
(*   entries  the names of an archive's entries, in the archive's order;   *)
(*   decodes  the encodings under which a sample of the bytes decodes;     *)
(*   text     the lines as decoded by the first such encoding;             *)
(*   fault    the class of the exception every attempt to open the node    *)
(*            raises, or "none";                                           *)
(*   listing  the class of the exception that reading the list of an       *)
(*            archive's entries raises, or "none".                         *)

\* The names of the tree in the order Python compares strings.  "/cwd" is
\* the working directory spelled out from the root: <<"/cwd", "top", "d">>
\* is the absolute spelling of the directory that <<"top", "d">> names.
Names == <<"/cwd", "a", "b", "d", "e", "f", "n", "top", "z">>

name_rank(n) == CHOOSE i \in 1..Len(Names) : Names[i] = n

\* PurePath.__lt__: the component lists compared as tuples.
path_lt(p, q) ==
    \E k \in 1..(Len(p) + 1) :
        /\ k <= Len(q)
        /\ \A j \in 1..(k - 1) : p[j] = q[j]
        /\ \/ k = Len(p) + 1
           \/ k <= Len(p) /\ name_rank(p[k]) < name_rank(q[k])

\* sorted(paths), line 214.
RECURSIVE sorted(_)
sorted(S) ==
    IF S = {} THEN <<>>
    ELSE LET m == CHOOSE x \in S : \A y \in S \ {x} : path_lt(x, y)
         IN  <<m>> \o sorted(S \ {m})

\* PurePath.match with a relative pattern: the pattern's components against
\* the last components of the path, "*" matching any one component.
path_match(p, pattern) ==
    /\ Len(pattern) <= Len(p)
    /\ \A i \in 1..Len(pattern) :
           \/ pattern[i] = "*"
           \/ pattern[i] = p[Len(p) - Len(pattern) + i]

\* is_ignored, lines 183-187, with the patterns `ignore`.
is_ignored_in(p, ignore) ==
    \E i \in 1..Len(ignore) : path_match(p, ignore[i])

is_ignored(p) == is_ignored_in(p, ignore_list)

is_prefix(p, q) == Len(p) <= Len(q) /\ SubSeq(q, 1, Len(p)) = p

\* Path.is_file and Path.is_dir, lines 210 and 212.
is_file(p) == p \in DOMAIN fs /\ fs[p].where = "fs" /\ fs[p].kind # "dir"

is_dir(p) == p \in DOMAIN fs /\ fs[p].where = "fs" /\ fs[p].kind = "dir"

\* Path.glob("**/*"), line 213: everything of the filesystem below p.
glob_all(p) ==
    {q \in DOMAIN fs : fs[q].where = "fs" /\ is_prefix(p, q) /\ q # p}

\* The loop of lines 209-213 over the roots fps, into the set acc.
RECURSIVE collect_paths(_, _)
collect_paths(fps, acc) ==
    IF fps = <<>> THEN acc
    ELSE LET p == Head(fps)
         IN  collect_paths(Tail(fps),
                 IF is_file(p) THEN acc \cup {p}
                 ELSE IF is_dir(p) THEN acc \cup glob_all(p)
                 ELSE acc)

\* The list without NotImplementedError.
non_fatal_exceptions_narrow ==
    {"BadZipfile", "TarError", "TypeError", "ValueError", "AttributeError"}

\* The classes the openers catch, lines 63-70.
non_fatal_exceptions ==
    {"BadZipfile", "TarError", "NotImplementedError", "TypeError",
     "ValueError", "AttributeError"}

\* The candidates with utf-8 tried first.
encodings_reordered == <<"utf-8", "utf-16", "ascii">>

\* encodings, line 118, in the order tried.
encodings == <<"utf-16", "utf-8", "ascii">>

\* The handlers with tar registered first.
archive_handlers_tar_first == <<"tar", "zip">>

\* The handlers registered by default, lines 335-339, in the order tried.
archive_handlers == <<"zip", "tar">>

\* What an opener makes of the node p once its bytes are at hand:
\* zipfile.ZipFile takes a path or an open file; tarfile.open takes the
\* open file of an entry for its `name` and raises TypeError (line 156).
opens_as(p, handler) ==
    IF handler = "zip" THEN fs[p].kind = "zip"
    ELSE fs[p].kind = "tar" /\ fs[p].where = "fs"

\* guess_encoding, lines 117-133: the attempts made and the encoding found
\* ("" for none).
guess_attempts(p) ==
    IF \E i \in 1..Len(encodings) : encodings[i] \in fs[p].decodes
    THEN CHOOSE i \in 1..Len(encodings) :
             /\ encodings[i] \in fs[p].decodes
             /\ \A j \in 1..(i - 1) : encodings[j] \notin fs[p].decodes
    ELSE Len(encodings)

guess_encoding(p) ==
    IF \E i \in 1..Len(encodings) : encodings[i] \in fs[p].decodes
    THEN encodings[guess_attempts(p)]
    ELSE ""

\* A handle: the node it reads, what opened it ("archive" for the ZipFile or
\* TarFile of open_as_zip and open_as_tar, "token" for the entry opened by
\* open_token(), "probe" for the file an opener opened and found not to be
\* an archive, "sniff" for guess_encoding's, "log" for a LogStream's),
\* whether it is open, and the LogStream that owns it (0 for none).
Handle(p, role, open, stream) ==
    [node |-> p, role |-> role, open |-> open, stream |-> stream]

\* A handle nothing refers to any more: closed by the finalizer or left open.
dropped(p, role) == Handle(p, role, gc = "deferred", 0)

\* n handles opened and closed one after the other by a `with`.
with_closed(p, role, n) == [i \in 1..n |-> Handle(p, role, FALSE, 0)]

\* A frame of recurse, lines 161-180.
Frame(p) == [path |-> p, stage |-> "enter", h |-> 1, f |-> 0, idx |-> 1,
             acc |-> <<>>]

\* A handle is open: a LogStream's as long as its reader is.
HandleOpen(h) ==
    IF h.stream # 0 THEN ~objs[h.stream].reader.closed ELSE h.open

\* The innermost frame of recurse.
top == stack[Len(stack)]

\* recurse is past its test of is_ignored and about to call the opener of
\* archive_handlers[top.h] (lines 165-166).
at_opener ==
    /\ pc = "recurse"
    /\ \/ top.stage = "enter" /\ ~is_ignored(top.path)
       \/ top.stage = "try"
    /\ top.h <= Len(archive_handlers)

\* recurse has tried every handler and is about to call open_as_log
\* (line 174).
at_open_as_log ==
    /\ pc = "recurse"
    /\ \/ top.stage = "enter" /\ ~is_ignored(top.path)
       \/ top.stage = "try"
    /\ top.h > Len(archive_handlers)

\* recurse returns the list r: to the loop of recurse_in_filesystem
\* (line 223) or to the loop of the actor that called it (lines 194, 202),
\* either of which extends its result and goes on with the next item.
return_from_recurse(r) ==
    IF Len(stack) = 1
    THEN /\ stack' = <<>>
         /\ result' = result \o r
         /\ pidx' = pidx + 1
         /\ pc' = "walk"
    ELSE /\ stack' = [SubSeq(stack, 1, Len(stack) - 1)
                         EXCEPT ![Len(stack) - 1] =
                             [@ EXCEPT !.acc = @ \o r, !.idx = @ + 1]]
         /\ UNCHANGED <<result, pidx, pc>>

\* open_as_log, lines 136-144, on the node p: the handles it opens, the
\* LogStream it constructs (if any) and the list recurse makes of what it
\* returns (lines 175-180).
open_as_log(p, id) ==
    LET enc == guess_encoding(p)
        sniffed == with_closed(p, "sniff", guess_attempts(p))
        r == LogStream_init(fs[p].text, p, DefaultLines)
    IN  IF fs[p].fault # "none"
        THEN [opened |-> <<>>, made |-> <<>>, ret |-> <<>>]
        ELSE IF enc = ""
        THEN [opened |-> sniffed, made |-> <<>>, ret |-> <<>>]
        ELSE IF r.raised
        THEN [opened |-> Append(sniffed, dropped(p, "log")),
              made |-> <<>>, ret |-> <<>>]
        ELSE IF accepted(r)
        THEN [opened |-> Append(sniffed, Handle(p, "log", TRUE, id)),
              made |-> <<[r.stream EXCEPT !.kept = TRUE]>>,
              ret |-> <<id>>]
        ELSE [opened |-> Append(sniffed, Handle(p, "log", TRUE, id)),
              made |-> <<[r.stream EXCEPT
                              !.reader.closed = (gc = "refcount")]>>,
              ret |-> <<>>]

\* The files of the roots fps one root after the other, nothing sorted and
\* no duplicate removed.
RECURSIVE expand_roots_in_order(_)
expand_roots_in_order(fps) ==
    IF fps = <<>> THEN <<>>
    ELSE LET p == Head(fps)
         IN  (IF is_file(p) THEN <<p>>
              ELSE IF is_dir(p) THEN sorted(glob_all(p))
              ELSE <<>>) \o expand_roots_in_order(Tail(fps))

\* Lines 208-214: the roots expanded into a set and the set sorted.
expand_roots(fps) == sorted(collect_paths(fps, {}))

\* An exception that leaves the frames without any closing its archive.
handles_left_open == handles

\* An exception leaves every frame of recurse, each of which closes its
\* archive on the way (line 172).
handles_after_unwinding ==
    [i \in DOMAIN handles |->
        IF \E k \in DOMAIN stack : stack[k].f = i
        THEN [handles[i] EXCEPT !.open = FALSE]
        ELSE handles[i]]

\* recurse_in_filesystem, lines 208-214: the roots expanded, deduplicated
\* and sorted.
Expand ==
    /\ pc = "expand"
    /\ paths' = expand_roots(filepaths)
    /\ pidx' = 1
    /\ pc' = "walk"
    /\ UNCHANGED <<fs, filepaths, ignore_list, gc, result, stack, handles,
                   objs, streams, oldest, timestamp, emitted, printed,
                   start_time, end_time, exc>>

\* Lines 217-221: an ignored path or a directory is passed over.
WalkSkip ==
    /\ pc = "walk"
    /\ pidx <= Len(paths)
    /\ is_ignored(paths[pidx]) \/ ~is_file(paths[pidx])
    /\ pidx' = pidx + 1
    /\ UNCHANGED <<fs, filepaths, ignore_list, gc, paths, result, stack,
                   handles, objs, streams, oldest, timestamp, emitted,
                   printed, start_time, end_time, pc, exc>>

\* Lines 222-223: recurse is called on a file.
WalkFile ==
    /\ pc = "walk"
    /\ pidx <= Len(paths)
    /\ ~is_ignored(paths[pidx])
    /\ is_file(paths[pidx])
    /\ stack' = <<Frame(paths[pidx])>>
    /\ pc' = "recurse"
    /\ UNCHANGED <<fs, filepaths, ignore_list, gc, paths, pidx, result,
                   handles, objs, streams, oldest, timestamp, emitted,
                   printed, start_time, end_time, exc>>

\* Line 224 and line 260: the traversal returns its result to rip.
WalkDone ==
    /\ pc = "walk"
    /\ pidx > Len(paths)
    /\ streams' = result
    /\ pc' = "merge"
    /\ UNCHANGED <<fs, filepaths, ignore_list, gc, paths, pidx, result,
                   stack, handles, objs, oldest, timestamp, emitted,
                   printed, start_time, end_time, exc>>

\* Lines 162-163: an ignored entry yields nothing.
RecurseIgnored ==
    /\ pc = "recurse"
    /\ top.stage = "enter"
    /\ is_ignored(top.path)
    /\ return_from_recurse(<<>>)
    /\ UNCHANGED <<fs, filepaths, ignore_list, gc, paths, handles, objs,
                   streams, oldest, timestamp, emitted, printed,
                   start_time, end_time, exc>>

\* Lines 166-170 with 147-158: the opener returns an archive and recurse
\* calls the actor.  An entry is reached through the handle open_token()
\* opens, which the archive keeps.
OpenArchive ==
    /\ at_opener
    /\ fs[top.path].fault = "none"
    /\ opens_as(top.path, archive_handlers[top.h])
    /\ LET p == top.path
           token == IF fs[p].where = "fs" THEN <<>>
                    ELSE <<Handle(p, "token", TRUE, 0)>>
           hs == handles \o token \o <<Handle(p, "archive", TRUE, 0)>>
       IN  /\ handles' = hs
           /\ stack' = [stack EXCEPT ![Len(stack)] =
                           [@ EXCEPT !.stage = "actor", !.f = Len(hs)]]
    /\ UNCHANGED <<fs, filepaths, ignore_list, gc, paths, pidx, result,
                   objs, streams, oldest, timestamp, emitted, printed,
                   start_time, end_time, pc, exc>>

\* Lines 166-167 with 147-158: the opener returns None, because the node is
\* no archive of its format or because opening it raised one of
\* non_fatal_exceptions; recurse goes on to the next handler.
NotArchive ==
    /\ at_opener
    /\ \/ fs[top.path].fault \in non_fatal_exceptions
       \/ /\ fs[top.path].fault = "none"
          /\ ~opens_as(top.path, archive_handlers[top.h])
    /\ LET p == top.path
       IN  handles' =
               IF fs[p].fault # "none" THEN handles
               ELSE IF fs[p].where = "fs"
               THEN Append(handles, Handle(p, "probe", FALSE, 0))
               ELSE Append(handles, dropped(p, "token"))
    /\ stack' = [stack EXCEPT ![Len(stack)] =
                    [@ EXCEPT !.stage = "try", !.h = @ + 1]]
    /\ UNCHANGED <<fs, filepaths, ignore_list, gc, paths, pidx, result,
                   objs, streams, oldest, timestamp, emitted, printed,
                   start_time, end_time, pc, exc>>

\* Lines 192-194 and 200-202: the actor calls recurse on its next entry.
ActorNext ==
    /\ pc = "recurse"
    /\ top.stage = "actor"
    /\ fs[top.path].listing = "none"
    /\ top.idx <= Len(fs[top.path].entries)
    /\ stack' = Append(stack,
                       Frame(Append(top.path, fs[top.path].entries[top.idx])))
    /\ UNCHANGED <<fs, filepaths, ignore_list, gc, paths, pidx, result,
                   handles, objs, streams, oldest, timestamp, emitted,
                   printed, start_time, end_time, pc, exc>>

\* Lines 195 and 203, then 170-172: the actor returns its result, recurse
\* closes the archive and returns.  The handle an archive inside an archive
\* was read through is closed by nobody: it lives on in the streams found
\* in the archive, or is dropped with the archive.
ActorReturn ==
    /\ pc = "recurse"
    /\ top.stage = "actor"
    /\ fs[top.path].listing = "none"
    /\ top.idx > Len(fs[top.path].entries)
    /\ handles' =
           [i \in DOMAIN handles |->
               IF i = top.f THEN [handles[i] EXCEPT !.open = FALSE]
               ELSE IF i = top.f - 1 /\ fs[top.path].where # "fs"
               THEN [handles[i] EXCEPT
                        !.open = (top.acc # <<>> \/ gc = "deferred")]
               ELSE handles[i]]
    /\ return_from_recurse(top.acc)
    /\ UNCHANGED <<fs, filepaths, ignore_list, gc, paths, objs, streams,
                   oldest, timestamp, emitted, printed, start_time,
                   end_time, exc>>

\* Lines 174-180 with 136-144 and 117-133.
OpenAsLog ==
    /\ at_open_as_log
    /\ fs[top.path].fault \in non_fatal_exceptions \cup {"none"}
    /\ LET r == open_as_log(top.path, Len(objs) + 1)
       IN  /\ handles' = handles \o r.opened
           /\ objs' = objs \o r.made
           /\ return_from_recurse(r.ret)
    /\ UNCHANGED <<fs, filepaths, ignore_list, gc, paths, streams, oldest,
                   timestamp, emitted, printed, start_time, end_time, exc>>

\* Opening the node raises an exception that is none of
\* non_fatal_exceptions: it leaves the opener (lines 150, 157) and every
\* frame of recurse, and ends rip.
Propagate ==
    /\ at_opener
    /\ fs[top.path].fault \notin non_fatal_exceptions \cup {"none"}
    /\ exc' = fs[top.path].fault
    /\ pc' = "aborted"
    /\ handles' = handles_after_unwinding
    /\ stack' = <<>>
    /\ UNCHANGED <<fs, filepaths, ignore_list, gc, paths, pidx, result,
                   objs, streams, oldest, timestamp, emitted, printed,
                   start_time, end_time>>

\* Line 200: tf.getmembers() reads the whole archive and raises on a damaged
\* one; the call is in no try block but recurse's, whose finally closes the
\* archive, and the exception ends rip.
ListingRaises ==
    /\ pc = "recurse"
    /\ top.stage = "actor"
    /\ fs[top.path].listing # "none"
    /\ exc' = fs[top.path].listing
    /\ pc' = "aborted"
    /\ handles' = handles_after_unwinding
    /\ stack' = <<>>
    /\ UNCHANGED <<fs, filepaths, ignore_list, gc, paths, pidx, result,
                   objs, streams, oldest, timestamp, emitted, printed,
                   start_time, end_time>>

NextTraversal ==
    \/ Expand
    \/ WalkSkip
    \/ WalkFile
    \/ WalkDone
    \/ RecurseIgnored
    \/ OpenArchive
    \/ NotArchive
    \/ ActorNext
    \/ ActorReturn
    \/ OpenAsLog
    \/ Propagate
    \/ ListingRaises

----------------------------------------------------------------------------
(* The whole run of rip: the traversal of a small tree, then the merge and *)
(* the filter.  The tree is                                                *)
(*     top/a        a log                                                  *)
(*     top/d/b      a log in a directory                                   *)
(*     top/z        a zip or tar archive of e and n, or a log              *)
(*     top/z/e      a log                                                  *)
(*     top/z/n      a zip or tar archive of f, or a log                    *)
(*     top/z/n/f    a log                                                  *)
(* and top/d can be named by its absolute path as well.                    *)
(* with at most one node made special: a log without a timestamp, with     *)
(* more headers than the look-ahead reads, with a timestamp that does not  *)
(* parse, a file that decodes under no encoding or under one only, a file  *)
(* without bytes, a node that cannot be opened, or a tar archive cut short.*)

NodeKinds == {"zip", "tar", "file"}

Header == <<"x", "nl">>

Headers(n) == [i \in 1..n |-> Header]

\* The text of the log named n.
LogText(n) ==
    CASE n = "a" -> << <<"T0", "x", "nl">>, <<"x", "nl">> >>
      [] n = "b" -> << <<"T1", "x", "nl">> >>
      [] n = "e" -> << <<"T1", "x", "nl">>, <<"x", "nl">> >>
      [] n = "f" -> << <<"T2", "x", "nl">> >>
      [] n = "n" -> << <<"T0", "x", "nl">> >>
      [] n = "z" -> << <<"T2", "x", "nl">> >>

\* The ways a log is made special, and the text it then has.
LogVariants ==
    {"untimed", "headers", "unparsed", "unparsed later", "bare last",
     "binary", "wide", "accented", "empty"}

VariantText(n, what) ==
    CASE what = "untimed"        -> << <<"x", "nl">> >>
      [] what = "headers"        -> Headers(DefaultLines + 1) \o LogText(n)
      [] what = "unparsed"       -> << <<"BAD", "x", "nl">> >>
      [] what = "unparsed later" -> Append(LogText(n), <<"BAD", "x", "nl">>)
      [] what = "bare last"      -> Append(LogText(n), <<"T2">>)
      [] what = "empty"          -> <<>>
      [] OTHER                   -> LogText(n)

\* The candidates of line 118 under which the bytes of such a log decode:
\* utf-16 asks for a byte order mark, which is no utf-8 and no ascii; text
\* of ascii characters alone is utf-8 too; nothing has to decode for a file
\* without bytes.
VariantDecodes(what) ==
    CASE what = "binary"   -> {}
      [] what = "wide"     -> {"utf-16"}
      [] what = "accented" -> {"utf-8"}
      [] what = "empty"    -> {"utf-16", "utf-8", "ascii"}
      [] OTHER             -> {"utf-8", "ascii"}

\* The ways a node fails to open: an entry with a compression the library
\* does not implement, an encrypted entry, a file that cannot be read.
FaultVariants == {"NotImplementedError", "RuntimeError", "OSError"}

NoDeviation == [at |-> "", what |-> "none"]

Deviations ==
    {NoDeviation}
    \cup [at : {"a", "b", "e", "f"}, what : LogVariants]
    \cup [at : {"e", "n", "f"}, what : {"NotImplementedError", "RuntimeError"}]
    \cup [at : {"a", "z"}, what : {"OSError"}]
    \cup [at : {"z"}, what : {"damaged"}]

\* The bytes of a tar archive read as text: each member's bytes follow its
\* header, which holds no line terminator, and padding without one follows
\* the last.  The header is ascii and no byte order mark.
tar_as_text(member) ==
    LET glued == [member EXCEPT ![1] = <<"x">> \o @]
        last == glued[Len(glued)]
    IN  IF member = <<>> THEN << <<"x">> >>
        ELSE IF last[Len(last)] = "nl" THEN Append(glued, <<"x">>)
        ELSE [glued EXCEPT ![Len(glued)] = Append(@, "x")]

TopPath == <<"top">>

TreePaths(zk, nk) ==
    {TopPath, <<"top", "a">>, <<"top", "d">>, <<"top", "d", "b">>,
     <<"top", "z">>, <<"/cwd", "top", "d">>, <<"/cwd", "top", "d", "b">>}
    \cup (IF zk = "file" THEN {}
          ELSE {<<"top", "z", "e">>, <<"top", "z", "n">>})
    \cup (IF zk = "file" \/ nk = "file" THEN {}
          ELSE {<<"top", "z", "n", "f">>})

Node(kind, where, entries, decodes, text, fault, listing) ==
    [kind |-> kind, where |-> where, entries |-> entries,
     decodes |-> decodes, text |-> text, fault |-> fault,
     listing |-> listing]

\* The node at the path p of the tree with z of kind zk, n of kind nk and
\* the deviation dev.
TreeNode(p, zk, nk, dev) ==
    LET n == p[Len(p)]
        kind == CASE n \in {"top", "d"} -> "dir"
                  [] n = "z" -> zk
                  [] n = "n" -> nk
                  [] OTHER -> "file"
        where == CASE Len(p) <= 2 \/ n = "b" \/ p[1] = "/cwd" -> "fs"
                   [] Len(p) = 3 -> zk
                   [] OTHER -> nk
        what == IF dev.at = n THEN dev.what ELSE "none"
        fault == IF what \in FaultVariants THEN what ELSE "none"
        fwhat == IF dev.at = "f" THEN dev.what ELSE "none"
        ftext == VariantText("f", fwhat)
    IN  CASE kind = "dir" ->
                 Node(kind, where, <<>>, {}, <<>>, "none", "none")
          [] kind = "zip" ->
                 Node(kind, where, IF n = "z" THEN <<"e", "n">> ELSE <<"f">>,
                      {}, <<>>, fault, "none")
          [] kind = "tar" ->
                 Node(kind, where, IF n = "z" THEN <<"e", "n">> ELSE <<"f">>,
                      IF n = "z" THEN {"utf-8", "ascii"}
                      ELSE VariantDecodes(fwhat)
                               \cap {"utf-8", "ascii"},
                      IF n = "z" THEN tar_as_text(<<>>)
                      ELSE tar_as_text(ftext),
                      fault,
                      IF what = "damaged" THEN "TarError" ELSE "none")
          [] OTHER ->
                 Node(kind, where, <<>>,
                      VariantDecodes(what), VariantText(n, what), fault,
                      "none")

Tree(zk, nk, dev) == [p \in TreePaths(zk, nk) |-> TreeNode(p, zk, nk, dev)]

\* The roots and the ignore patterns of a run.
RunConfigs ==
    [filepaths : {<<TopPath>>},
     ignore_list : {<<>>, << <<"d">> >>, << <<"d", "*">> >>, << <<"z">> >>,
                    << <<"n">> >>, << <<"b">>, <<"e">> >>}]
    \cup
    [filepaths : {<< <<"top", "a">>, <<"top", "z">> >>,
                  << <<"top", "z">>, <<"top", "a">> >>,
                  << <<"top", "d">>, <<"top", "a">>, <<"top", "d">> >>,
                  << <<"top", "a">>, <<"top", "missing">>, TopPath >>,
                  << <<"top", "d">>, TopPath >>,
                  << TopPath, <<"/cwd", "top", "d">> >>},
     ignore_list : {<<>>}]

Init ==
    /\ \E zk \in NodeKinds, nk \in NodeKinds, dev \in Deviations :
           /\ zk = "file" => nk = "file" /\ dev.at \notin {"e", "n", "f"}
           /\ nk = "file" => dev.at # "f"
           /\ dev.what = "damaged" => zk = "tar"
           /\ fs = Tree(zk, nk, dev)
    /\ \E c \in RunConfigs :
           /\ filepaths = c.filepaths
           /\ ignore_list = c.ignore_list
           /\ \E r \in TimeRanges :
                  /\ r # <<min_date, max_date>> =>
                         c.filepaths = <<TopPath>> /\ c.ignore_list = <<>>
                  /\ start_time = r[1]
                  /\ end_time = r[2]
    /\ gc \in {"refcount", "deferred"}
    /\ paths = <<>>
    /\ pidx = 0
    /\ result = <<>>
    /\ stack = <<>>
    /\ handles = <<>>
    /\ objs = <<>>
    /\ streams = <<>>
    /\ oldest = 0
    /\ timestamp = ""
    /\ emitted = <<>>
    /\ printed = <<>>
    /\ pc = "expand"
    /\ exc = "none"

Next == NextTraversal \/ NextMerge

Spec == Init /\ [][Next]_vars

----------------------------------------------------------------------------
(* open_as_log on its own, from line 140 on: a LogStream is constructed on *)
(* a text that has decoded, and returned or not.  The texts are some       *)
(* header lines, up to MaxExtraHeaders more than the look-ahead consumes,  *)
(* followed by one of a few ends.                                          *)

MaxExtraHeaders == 2

\* What follows the headers: nothing, a log, a log whose timestamp is not
\* the first thing on the line, a timestamp that does not parse, a bare
\* timestamp, a log whose timestamps go backwards.
OpenTails ==
    { <<>>,
      << <<"T1", "x", "nl">> >>,
      << <<"T1", "x", "nl">>, <<"x", "nl">> >>,
      << <<"x", "T0", "x", "nl">> >>,
      << <<"BAD", "x", "nl">> >>,
      << <<"T2">> >>,
      << <<"T1", "x", "nl">>, <<"T0", "x", "nl">> >> }

OpenTexts ==
    {Headers(k) \o tail :
        k \in 0..(DefaultLines + MaxExtraHeaders), tail \in OpenTails}

\* Lines 140-144 and 175-180: the stream is constructed; recurse gets it
\* when its current_time is set, and nothing when it is not or when the
\* construction raised (ValueError is one of non_fatal_exceptions).  The
\* stream not returned is left to the finalizer.
ConstructLog ==
    /\ pc = "open"
    /\ LET r == LogStream_init(objs[1].reader.text, objs[1].path,
                               DefaultLines)
       IN  /\ objs' = <<[r.stream EXCEPT
                            !.kept = accepted(r),
                            !.reader.closed =
                                ~accepted(r) /\ gc = "refcount"]>>
           /\ result' = IF accepted(r) THEN <<1>> ELSE <<>>
    /\ pc' = "opened"
    /\ UNCHANGED <<fs, filepaths, ignore_list, gc, paths, pidx, stack,
                   handles, streams, oldest, timestamp, emitted, printed,
                   start_time, end_time, exc>>

NextOpen == ConstructLog

InitOpen ==
    /\ \E text \in OpenTexts :
           objs = <<LogStream_fields(text, <<"top", "a">>)>>
    /\ fs = <<>>
    /\ filepaths = <<>>
    /\ ignore_list = <<>>
    /\ gc \in {"refcount", "deferred"}
    /\ paths = <<>>
    /\ pidx = 0
    /\ result = <<>>
    /\ stack = <<>>
    /\ handles = <<>>
    /\ streams = <<>>
    /\ oldest = 0
    /\ timestamp = ""
    /\ emitted = <<>>
    /\ printed = <<>>
    /\ start_time = min_date
    /\ end_time = max_date
    /\ pc = "open"
    /\ exc = "none"

SpecOpen == InitOpen /\ [][NextOpen]_vars

----------------------------------------------------------------------------
(* The claims.                                                             *)

\* Whether iso_re matches in a line.
Stamped(line) == iso_re_search(line) > 0

\* The instant of a line's first timestamp.
LineInstant(line) == parse_date(line[iso_re_search(line)])

\* The last timestamped line of text at or before line n (0: none).
LastStamped(text, n) ==
    IF \E k \in 1..n : Stamped(text[k])
    THEN CHOOSE k \in 1..n :
            /\ Stamped(text[k])
            /\ \A j \in (k + 1)..n : ~Stamped(text[j])
    ELSE 0

\* The governing instant of line n: that of the nearest timestamped line.
GoverningInstant(text, n) == LineInstant(text[LastStamped(text, n)])

\* The text of the stream a record came from, and the record's instant.
TextOf(rec) == objs[rec.src].reader.text
RecInstant(rec) == parse_date(rec.timestamp)

\* A stream's own timestamps are in non-decreasing order.
StreamSorted(text) ==
    \A i, j \in 1..Len(text) :
        ( /\ i < j
          /\ Stamped(text[i]) /\ ~parse_date_raises(text[i][iso_re_search(text[i])])
          /\ Stamped(text[j]) /\ ~parse_date_raises(text[j][iso_re_search(text[j])]) )
        => LineInstant(text[i]) <= LineInstant(text[j])

AllStreamsSorted == \A id \in DOMAIN objs : StreamSorted(objs[id].reader.text)

\* C1 as claimed: whatever the streams, sorted or not, the records are
\* yielded in non-decreasing order of their instants.
C1_OutputNonDecreasing ==
    \A i, j \in 1..Len(emitted) :
        i < j => RecInstant(emitted[i]) <= RecInstant(emitted[j])

\* C1 as amended: when every stream's own timestamps are in non-decreasing
\* order, the records are yielded in non-decreasing order of their instants,
\* whatever the order of the list of streams.
C1_SortedStreamsMergeInOrder == AllStreamsSorted => C1_OutputNonDecreasing

\* C1's case: two sorted streams whose records interleave, the merge over.
C1_Witness ==
    /\ pc = "done"
    /\ AllStreamsSorted
    /\ \E i, j, k \in 1..Len(emitted) :
          /\ i < j /\ j < k
          /\ emitted[i].src = emitted[k].src
          /\ emitted[j].src # emitted[i].src
          /\ RecInstant(emitted[i]) < RecInstant(emitted[j])
          /\ RecInstant(emitted[j]) < RecInstant(emitted[k])

\* C2: the record of a line with no timestamp comes right after the record of
\* the line before it in the same stream, with that record's path and
\* timestamp, which is the instant of the nearest timestamped line before it;
\* and when the merge is over every line with no timestamp that follows a
\* timestamped line of its stream has been yielded.
C2_ContinuationGrouping ==
    /\ \A i \in 1..Len(emitted) :
          ~Stamped(TextOf(emitted[i])[emitted[i].lineno]) =>
             /\ i > 1
             /\ emitted[i - 1].src = emitted[i].src
             /\ emitted[i - 1].lineno = emitted[i].lineno - 1
             /\ emitted[i - 1].path = emitted[i].path
             /\ emitted[i].path = objs[emitted[i].src].path
             /\ emitted[i - 1].timestamp = emitted[i].timestamp
             /\ RecInstant(emitted[i]) =
                    GoverningInstant(TextOf(emitted[i]), emitted[i].lineno)
    /\ pc = "done" =>
          \A id \in DOMAIN objs : \A n \in 1..Len(objs[id].reader.text) :
             ( /\ ~Stamped(objs[id].reader.text[n])
               /\ LastStamped(objs[id].reader.text, n) > 0 )
             => \E i \in 1..Len(emitted) :
                   emitted[i].src = id /\ emitted[i].lineno = n

\* C2's case: a continuation record has just been yielded while another
\* stream waits in the list with the very instant of the group.
C2_Witness ==
    /\ pc = "group"
    /\ Len(emitted) > 1
    /\ ~Stamped(TextOf(emitted[Len(emitted)])[emitted[Len(emitted)].lineno])
    /\ \E k \in 1..Len(streams) :
          /\ streams[k] # oldest
          /\ objs[streams[k]].current_time = RecInstant(emitted[Len(emitted)])

\* The row rip prints for a record.
RowOf(rec) ==
    [ timestamp |-> GoverningInstant(TextOf(rec), rec.lineno),
      line |-> strip(rec.line), path |-> rec.path ]

RECURSIVE RowsInRange(_)
RowsInRange(recs) ==
    IF recs = <<>>
    THEN <<>>
    ELSE LET t == GoverningInstant(TextOf(Head(recs)), Head(recs).lineno)
         IN  (IF start_time <= t /\ t < end_time
              THEN <<RowOf(Head(recs))>>
              ELSE <<>>) \o RowsInRange(Tail(recs))

\* C3: the rows printed are the yielded records whose governing instant t has
\* start_time <= t < end_time, in the order they were yielded.
C3_TimeRangeFilter == printed = RowsInRange(emitted)

\* C3's case: a record before the range, one at its start, one at its end.
C3_Witness ==
    /\ pc = "done"
    /\ start_time = 2001
    /\ \E i, j, k \in 1..Len(emitted) :
          /\ RecInstant(emitted[i]) < start_time
          /\ RecInstant(emitted[j]) = start_time
          /\ RecInstant(emitted[k]) = end_time
    /\ Len(printed) > 0

\* C4: no stream is closed twice; a closed stream is out of the list, was
\* closed with its peek empty or its current_time none, and is not touched
\* again; after the first remove_finished_streams the list holds exactly the
\* streams not closed; and when the merge is over every stream is closed.
C4_ClosedInv ==
    /\ \A id \in DOMAIN objs :
          /\ objs[id].closes <= 1
          /\ objs[id].closes = 1 =>
                /\ \A k \in 1..Len(streams) : streams[k] # id
                /\ \/ Len(objs[id].current_line) = 0
                   \/ objs[id].current_time = NoneTime
          /\ (objs[id].closes = 0 /\ pc \in {"loop", "group"}) =>
                \E k \in 1..Len(streams) : streams[k] = id
    /\ pc = "done" => \A id \in DOMAIN objs : objs[id].closes = 1

C4_ClosedExactlyOnce ==
    /\ []C4_ClosedInv
    /\ [][\A id \in DOMAIN objs :
             objs[id].closes = 1 => objs'[id] = objs[id]]_vars

\* C4's case: two streams, each read and then closed, the merge over.
C4_Witness ==
    /\ pc = "done"
    /\ Len(objs) = 2
    /\ \A id \in DOMAIN objs :
          /\ objs[id].closes = 1
          /\ \E i \in 1..Len(emitted) : emitted[i].src = id

\* What a run is expected to find and to print, stated on the tree and the
\* texts alone.

\* The roots as a set: their order and their repetitions forgotten.
RootSet == {filepaths[i] : i \in DOMAIN filepaths}

\* The files of the filesystem the roots name or hold, but the ignored ones.
RootFiles ==
    {q \in DOMAIN fs :
        /\ fs[q].where = "fs"
        /\ fs[q].kind # "dir"
        /\ ~is_ignored(q)
        /\ \E r \in RootSet :
               \/ r = q
               \/ r \in DOMAIN fs /\ fs[r].kind = "dir" /\ is_prefix(r, q)}

\* A set of paths as the list that ascends in the order of paths.
InPathOrder(S) ==
    CHOOSE s \in [1..Cardinality(S) -> S] :
        \A i, j \in 1..Cardinality(S) : i < j => path_lt(s[i], s[j])

\* An archive the program descends into: a zip archive anywhere, a tar
\* archive on the filesystem.
OpensAsArchive(p) ==
    \/ fs[p].kind = "zip"
    \/ fs[p].kind = "tar" /\ fs[p].where = "fs"

\* A text open_as_log accepts: its first timestamped line is among the first
\* DefaultLines + 1 lines, and its timestamp parses.
AcceptableText(text) ==
    \E n \in 1..Len(text) :
        /\ n <= DefaultLines + 1
        /\ Stamped(text[n])
        /\ \A m \in 1..(n - 1) : ~Stamped(text[m])
        /\ ~parse_date_raises(text[n][iso_re_search(text[n])])

\* The logs a traversal finds at and below p, in the order it finds them.
RECURSIVE LogsUnder(_)
RECURSIVE LogsOfEntries(_, _)
LogsUnder(p) ==
    IF is_ignored(p) \/ fs[p].fault # "none" THEN <<>>
    ELSE IF OpensAsArchive(p) THEN LogsOfEntries(p, 1)
    ELSE IF fs[p].decodes # {} /\ AcceptableText(fs[p].text) THEN <<p>>
    ELSE <<>>

LogsOfEntries(p, i) ==
    IF i > Len(fs[p].entries) THEN <<>>
    ELSE LogsUnder(Append(p, fs[p].entries[i])) \o LogsOfEntries(p, i + 1)

RECURSIVE LogsOfAll(_)
LogsOfAll(ps) ==
    IF ps = <<>> THEN <<>> ELSE LogsUnder(Head(ps)) \o LogsOfAll(Tail(ps))

ExpectedLogs == LogsOfAll(InPathOrder(RootFiles))

\* The paths of the streams in the list of identities ids.
PathsOf(ids) == [i \in DOMAIN ids |-> objs[ids[i]].path]

\* The traversal ended with an exception, and the merge did.
TraversalAborted == pc = "aborted" /\ pidx \in 1..Len(paths)

MergeAborted == pc = "aborted" /\ pidx > Len(paths)

\* A text as the merge sees it: a last line that is nothing but a timestamp
\* is never yielded.
EffectiveText(text) ==
    IF /\ Len(text) > 0
       /\ Stamped(text[Len(text)])
       /\ iso_re_search(text[Len(text)]) = Len(text[Len(text)])
       /\ ~parse_date_raises(text[Len(text)][Len(text[Len(text)])])
    THEN SubSeq(text, 1, Len(text) - 1)
    ELSE text

\* The first timestamped line of text after line n (0: none).
NextStamped(text, n) ==
    IF \E k \in (n + 1)..Len(text) : Stamped(text[k])
    THEN CHOOSE k \in (n + 1)..Len(text) :
            /\ Stamped(text[k])
            /\ \A j \in (n + 1)..(k - 1) : ~Stamped(text[j])
    ELSE 0

\* The rows of the group that line pos of text heads: the rest of the line
\* after its timestamp, then the lines without timestamp that follow, all
\* with the instant of the line pos.
GroupRows(path, text, pos) ==
    LET nx == NextStamped(text, pos)
        last == IF nx = 0 THEN Len(text) ELSE nx - 1
        head == text[pos]
    IN  [k \in 1..(last - pos + 1) |->
            [timestamp |-> LineInstant(head),
             line |-> IF k = 1
                      THEN strip(SubSeq(head, iso_re_search(head) + 1,
                                        Len(head)))
                      ELSE strip(text[pos + k - 1]),
             path |-> path]]

\* A list of cursors [path, text, pos] in the order of the instants at pos,
\* those of equal instants in the order of the list.
RECURSIVE ByInstant(_)
ByInstant(cs) ==
    IF cs = <<>> THEN <<>>
    ELSE LET key(c) == LineInstant(c.text[c.pos])
             least == CHOOSE i \in 1..Len(cs) :
                          /\ \A j \in 1..Len(cs) : key(cs[i]) <= key(cs[j])
                          /\ \A j \in 1..(i - 1) : key(cs[j]) # key(cs[i])
         IN  <<cs[least]>> \o
             ByInstant(SubSeq(cs, 1, least - 1) \o
                       SubSeq(cs, least + 1, Len(cs)))

\* The rows the merge yields from the cursors cs: the group of the first,
\* then the rest; nothing more once a timestamp fails to parse.
RECURSIVE MergedRows(_)
MergedRows(cs) ==
    IF cs = <<>> THEN <<>>
    ELSE LET c == cs[1]
             nx == NextStamped(c.text, c.pos)
             rows == GroupRows(c.path, c.text, c.pos)
         IN  IF nx = 0 THEN rows \o MergedRows(Tail(cs))
             ELSE IF parse_date_raises(c.text[nx][iso_re_search(c.text[nx])])
             THEN rows
             ELSE rows \o MergedRows(ByInstant(<<[c EXCEPT !.pos = nx]>>
                                               \o Tail(cs)))

\* The cursors of the logs ps at their first timestamped lines; a log
\* without one is dropped.
RECURSIVE CursorsOf(_)
CursorsOf(ps) ==
    IF ps = <<>> THEN <<>>
    ELSE LET text == EffectiveText(fs[Head(ps)].text)
             first == NextStamped(text, 0)
         IN  (IF first = 0 THEN <<>>
              ELSE <<[path |-> Head(ps), text |-> text, pos |-> first]>>)
             \o CursorsOf(Tail(ps))

RowInRange(row) == start_time <= row.timestamp /\ row.timestamp < end_time

ExpectedOutput ==
    SelectSeq(MergedRows(ByInstant(CursorsOf(ExpectedLogs))), RowInRange)

\* C5, as stated: at the end of the traversal every handle it opened is
\* closed, but those of the streams it returns.
C5_OnlyReturnedStreamsHoldOpenHandles ==
    pc = "merge" =>
        \A i \in DOMAIN handles :
            HandleOpen(handles[i]) =>
                /\ handles[i].stream # 0
                /\ objs[handles[i].stream].kept
                /\ \E k \in DOMAIN result : result[k] = handles[i].stream

\* The classes of non_fatal_exceptions, as the openers are meant to catch
\* them.
CaughtClasses ==
    {"BadZipfile", "TarError", "NotImplementedError", "TypeError",
     "ValueError", "AttributeError"}

C7_IgnoredPathsUntouched ==
    \A q \in DOMAIN fs :
        is_ignored(q) =>
            /\ \A i \in DOMAIN handles : ~is_prefix(q, handles[i].node)
            /\ \A id \in DOMAIN objs : ~is_prefix(q, objs[id].path)
            /\ \A k \in DOMAIN stack :
                   is_prefix(q, stack[k].path) => stack[k].path = q

\* C8: the rows a run has printed when it ends are those determined by the
\* tree, the set of the roots, the ignore patterns and the time range: the
\* order of the roots, their repetitions and the interpreter make no
\* difference, and rows of equal instants come in the order the traversal
\* finds their logs in.
C8_OutputDeterminedByInputs ==
    (pc = "done" \/ MergeAborted) => printed = ExpectedOutput

\* A run whose roots are given out of order ends having printed rows of
\* equal instants from different logs.
C8_Witness ==
    /\ pc = "done"
    /\ filepaths = << <<"top", "z">>, <<"top", "a">> >>
    /\ \E i, j \in DOMAIN printed :
           /\ i < j
           /\ printed[i].timestamp = printed[j].timestamp
           /\ printed[i].path # printed[j].path

\* C9 as claimed: after a peekline that read a line, current_time is the
\* instant of the line's first timestamp and the buffer is the line with the
\* timestamp alone removed, the text before it kept; with no timestamp in the
\* line, current_time is none and the buffer is the line.
C9_PeeklineRemovesOnlyTheMatch ==
    \A id \in DOMAIN objs :
        (pc = "cursor" /\ objs[id].fresh) =>
            LET raw == objs[id].raw
                m == iso_re_search(raw)
            IN  IF m > 0
                THEN /\ objs[id].current_time = parse_date(raw[m])
                     /\ objs[id].current_line =
                            SubSeq(raw, 1, m - 1) \o SubSeq(raw, m + 1, Len(raw))
                ELSE /\ objs[id].current_time = NoneTime
                     /\ objs[id].current_line = raw

\* C10, as stated: at the end of construction and after every advance step,
\* no LogStream has current_time none while its buffer holds text.
C10_TimeNoneOnlyWhenBufferEmpty ==
    pc \notin {"group", "aborted"} =>
        \A id \in DOMAIN objs :
            objs[id].current_time = NoneTime => objs[id].current_line = <<>>

\* C10, amended: at the end of construction and after every advance step,
\* no LogStream that open_as_log accepted has current_time none while its
\* buffer holds text.  (A stream whose first DefaultLines + 1 lines hold no
\* timestamp ends its construction with current_time none and a line in the
\* buffer; open_as_log discards it.)
C10_AcceptedTimeNoneOnlyWhenBufferEmpty ==
    pc \notin {"group", "aborted"} =>
        \A id \in DOMAIN objs :
            (objs[id].kept /\ objs[id].current_time = NoneTime) =>
                objs[id].current_line = <<>>

\* An accepted stream is exhausted after an advance step: current_time is
\* none and the buffer is empty; and a stream was discarded with a line in
\* its buffer.
C10_Witness ==
    /\ pc = "loop"
    /\ \E id \in DOMAIN objs :
           /\ objs[id].kept
           /\ objs[id].reader.pos > 1
           /\ objs[id].current_time = NoneTime
           /\ objs[id].current_line = <<>>
    /\ \E id \in DOMAIN objs :
           /\ ~objs[id].kept
           /\ objs[id].current_time = NoneTime
           /\ objs[id].current_line # <<>>

\* The file of the filesystem the path p lies in or is (<<>>: none).
FileOf(p) ==
    IF \E r \in RootFiles : is_prefix(r, p)
    THEN CHOOSE r \in RootFiles : is_prefix(r, p)
    ELSE <<>>

\* The nodes from the file of p down to p itself.
ChainOf(p) ==
    {q \in DOMAIN fs : is_prefix(FileOf(p), q) /\ is_prefix(q, p)}

\* A log that lies, at any depth of archives, in a file the roots name, with
\* nothing on the way to it ignored or failing to open.
NestedLog(p) ==
    /\ p \in DOMAIN fs
    /\ fs[p].kind = "file"
    /\ fs[p].decodes # {}
    /\ AcceptableText(fs[p].text)
    /\ FileOf(p) # <<>>
    /\ \A q \in ChainOf(p) :
           /\ ~is_ignored(q)
           /\ fs[q].fault = "none"
           /\ fs[q].listing = "none"

\* C11, as stated: when the traversal ends, every log, however deep in
\* archives it lies, is a stream whose path is the path of the file joined
\* with the names of the entries down to the log, and whose lines are the
\* lines of the log; and every stream is such a log.
C11_NestedLogsDiscovered ==
    pc = "merge" =>
        /\ \A p \in DOMAIN fs :
               NestedLog(p) =>
                   \E k \in DOMAIN result :
                       /\ objs[result[k]].path = p
                       /\ objs[result[k]].reader.text = fs[p].text
        /\ \A k \in DOMAIN result : NestedLog(objs[result[k]].path)

\* The candidates in the order the claim gives them.
Candidates == <<"utf-16", "utf-8", "ascii">>

\* The handles guess_encoding has opened on the node p.
Sniffs(p) ==
    {i \in DOMAIN handles :
        handles[i].node = p /\ handles[i].role = "sniff"}

\* The handles of the LogStreams constructed on the node p.
LogHandles(p) ==
    {i \in DOMAIN handles :
        handles[i].node = p /\ handles[i].role = "log"}

\* C12: on every leaf guess_encoding has sniffed, it has opened one stream
\* per candidate tried and closed it again, has tried utf-16, utf-8, ascii
\* in that order and stopped at the first that decodes; where none does it
\* has tried all three, no LogStream is constructed and no stream returned,
\* no exception leaves the traversal, and the traversal goes on to find
\* every other log.
C12_EncodingSniffedInOrder ==
    /\ \A p \in DOMAIN fs :
           LET n == Cardinality(Sniffs(p))
           IN  n > 0 =>
                   /\ n <= Len(Candidates)
                   /\ \A i \in Sniffs(p) : ~handles[i].open
                   /\ \A j \in 1..(n - 1) : Candidates[j] \notin fs[p].decodes
                   /\ IF Candidates[n] \in fs[p].decodes
                      THEN Cardinality(LogHandles(p)) = 1
                      ELSE /\ n = Len(Candidates)
                           /\ LogHandles(p) = {}
                           /\ \A k \in DOMAIN objs : objs[k].path # p
                           /\ exc = "none"
    /\ pc = "merge" => PathsOf(result) = ExpectedLogs

\* A leaf that decodes under no candidate has been sniffed three times, is
\* no stream, and a log after it has been found.
C12_Witness ==
    /\ pc = "merge"
    /\ \E p \in DOMAIN fs :
           /\ fs[p].kind = "file"
           /\ fs[p].decodes = {}
           /\ Cardinality(Sniffs(p)) = 3
           /\ \A k \in DOMAIN result : objs[result[k]].path # p
           /\ \E i \in Sniffs(p), j \in DOMAIN handles :
                  /\ i < j
                  /\ handles[j].role = "log"
                  /\ \E k \in DOMAIN result : result[k] = handles[j].stream

\* C13: whenever iterate_through_logs yields the record of a timestamped
\* line, the stream it reads is in the list of live streams, the record's
\* instant is that stream's current_time, and no live stream has a smaller
\* current_time.
C13_SelectedStreamIsOldest ==
    [][(pc = "loop" /\ pc' = "group") =>
          LET rec == emitted'[Len(emitted')]
          IN  /\ Len(emitted') = Len(emitted) + 1
              /\ ~rec.cont
              /\ \E k \in DOMAIN streams : streams[k] = rec.src
              /\ RecInstant(rec) = objs[rec.src].current_time
              /\ \A k \in DOMAIN streams :
                     RecInstant(rec) <= objs[streams[k]].current_time]_vars

\* The stream found second has just been read while the stream found first
\* is live and waits with a later instant.
C13_Witness ==
    /\ pc = "group"
    /\ Len(streams) = 2
    /\ emitted # <<>>
    /\ ~emitted[Len(emitted)].cont
    /\ emitted[Len(emitted)].src = 2
    /\ objs[2].reader.pos = emitted[Len(emitted)].lineno
    /\ RecInstant(emitted[Len(emitted)]) < objs[1].current_time

\* The records yielded for the stream id, in the order yielded.
RecordsOf(id) == SelectSeq(emitted, LAMBDA rec : rec.src = id)

\* What line n of text contributes to the output: a timestamped line the
\* text after its timestamp, stripped (line 245); another line itself.
Contribution(text, n) ==
    IF Stamped(text[n])
    THEN strip(SubSeq(text[n], iso_re_search(text[n]) + 1, Len(text[n])))
    ELSE text[n]

\* The stream's lines from the first timestamped one to the last, each once
\* and in order, are the records yielded for it.
LinesAllEmitted(id) ==
    LET text == objs[id].reader.text
        first == NextStamped(text, 0)
        recs == RecordsOf(id)
    IN  /\ Len(recs) = Len(text) - first + 1
        /\ \A i \in DOMAIN recs :
               /\ recs[i].lineno = first + i - 1
               /\ recs[i].line = Contribution(text, first + i - 1)

\* C14, as stated: when the merge ends, each accepted stream's lines from
\* its first timestamped line to its end have been yielded, each once and in
\* the stream's order, whatever the shape of the lines, a last line that is
\* a timestamp and nothing else included.
C14_NoLineLostOrDuplicated ==
    pc = "done" => \A id \in DOMAIN objs : LinesAllEmitted(id)

\* The place of the stream id in the list (0: not in it).
PlaceIn(list, id) ==
    IF \E k \in DOMAIN list : list[k] = id
    THEN CHOOSE k \in DOMAIN list : list[k] = id
    ELSE 0

\* C15: every remove_finished_streams leaves the list in the order of
\* current_time with streams of equal current_time in the order they had
\* before (in the order of discovery at first), so that the head of the
\* list, which is read next, is the earliest of the tied streams in the
\* list before; and the stream that has just been read stays at the head
\* as long as no other stream's current_time is smaller than its next.
C15_TiesKeepListOrder ==
    [][(pc \in {"merge", "group"} /\ pc' = "loop") =>
          /\ \A i, j \in DOMAIN streams' :
                 i < j => objs'[streams'[i]].current_time
                              <= objs'[streams'[j]].current_time
          /\ \A i, j \in DOMAIN streams' :
                 ( /\ objs'[streams'[i]].current_time
                          = objs'[streams'[j]].current_time
                   /\ PlaceIn(streams, streams'[i])
                          < PlaceIn(streams, streams'[j]) )
                 => i < j
          /\ \A k \in DOMAIN streams' : PlaceIn(streams, streams'[k]) > 0
          /\ ( /\ pc = "group"
               /\ PlaceIn(streams', oldest) > 0
               /\ \A k \in DOMAIN streams' :
                      objs'[oldest].current_time
                          <= objs'[streams'[k]].current_time )
             => streams'[1] = oldest]_vars

\* The stream found second has been read, its next line has the instant
\* the stream found first waits with, and it is at the head of the list.
C15_Witness ==
    /\ pc = "loop"
    /\ Len(streams) = 2
    /\ oldest = 2
    /\ streams[1] = 2
    /\ objs[1].current_time = objs[2].current_time

\* The lines the construction has consumed: those read from the reader but
\* the one the buffer was last filled from.
Consumed(s) == IF s.raw = <<>> THEN s.reader.pos ELSE s.reader.pos - 1

\* C16: when open_as_log has constructed the stream, the construction has
\* consumed at most DefaultLines lines, all without a timestamp, and has
\* stopped at a timestamped line, at the end of the text or with the budget
\* spent; the stream is returned exactly when the text's first timestamp
\* comes after at most DefaultLines lines (and is one parse_date takes), and
\* then the buffer was filled from that line and holds what follows its
\* timestamp, and current_time is its instant; otherwise current_time is
\* none and nothing is returned.
C16_LookAheadWithinBudget ==
    pc = "opened" =>
        LET s == objs[1]
            text == s.reader.text
            first == NextStamped(text, 0)
        IN  /\ Consumed(s) <= DefaultLines
            /\ \A n \in 1..Consumed(s) : ~Stamped(text[n])
            /\ \/ Stamped(s.raw)
               \/ s.raw = <<>> /\ s.reader.pos = Len(text)
               \/ Consumed(s) = DefaultLines
            /\ result = <<1>> <=> AcceptableText(text)
            /\ AcceptableText(text) =>
                   /\ first <= DefaultLines + 1
                   /\ s.reader.pos = first
                   /\ s.raw = text[first]
                   /\ s.current_line =
                          SubSeq(text[first], iso_re_search(text[first]) + 1,
                                 Len(text[first]))
                   /\ s.current_time = LineInstant(text[first])
            /\ ~AcceptableText(text) =>
                   /\ result = <<>>
                   /\ s.current_time = NoneTime

\* A text of DefaultLines headers and a log: the headers are consumed and
\* the stream is returned, at its first timestamped line.
C16_Witness ==
    /\ pc = "opened"
    /\ result = <<1>>
    /\ Consumed(objs[1]) = DefaultLines
    /\ objs[1].current_time = 2001
    /\ objs[1].current_line = <<"x", "nl">>

\* The handles of the role `role` opened on the node p.
HandlesOn(p, role) ==
    {i \in DOMAIN handles : handles[i].node = p /\ handles[i].role = role}

\* The openers that were handed the bytes of p and returned no archive: on
\* the filesystem each leaves a closed file, in an archive each has opened
\* the entry, as has the opener that returned the archive.
Mismatches(p) ==
    Cardinality(HandlesOn(p, "probe")) + Cardinality(HandlesOn(p, "token"))
        - (IF fs[p].where = "fs" THEN 0
           ELSE Cardinality(HandlesOn(p, "archive")))

\* C17: a node is opened as an archive at most once, by the zip opener
\* before any other was tried or by the tar opener after the zip opener
\* alone returned nothing, and then nothing ever reads it as a log, whatever
\* its entries yield; a node is read as a log only after both openers
\* returned nothing; and the traversal returns the logs of the archives'
\* entries and the leaves in which a timestamp is found, nothing else.
C17_ZipThenTarThenLog ==
    /\ \A p \in DOMAIN fs :
           LET archives == Cardinality(HandlesOn(p, "archive"))
               read == HandlesOn(p, "sniff") \cup HandlesOn(p, "log")
           IN  /\ archives <= 1
               /\ Mismatches(p) <= 2
               /\ archives = 1 =>
                      /\ read = {}
                      /\ \/ fs[p].kind = "zip" /\ Mismatches(p) = 0
                         \/ fs[p].kind = "tar" /\ Mismatches(p) = 1
               /\ read # {} =>
                      /\ archives = 0
                      /\ Mismatches(p) = 2
                      /\ fs[p].kind # "zip"
               /\ \A k \in DOMAIN result :
                      objs[result[k]].path = p =>
                          /\ archives = 0
                          /\ AcceptableText(fs[p].text)
    /\ pc = "merge" => PathsOf(result) = LogsOfAll(InPathOrder(RootFiles))

\* A tar archive was opened after the zip opener returned nothing, its
\* entries have yielded no stream, and it was not read as a log.
C17_Witness ==
    /\ pc = "merge"
    /\ \E p \in DOMAIN fs :
           /\ fs[p].kind = "tar"
           /\ Cardinality(HandlesOn(p, "archive")) = 1
           /\ Mismatches(p) = 1
           /\ HandlesOn(p, "sniff") = {}
           /\ \A k \in DOMAIN result : ~is_prefix(p, objs[result[k]].path)

\* The call of recurse that opened the archive handle i is still running.
HeldByFrame(st, i) == \E k \in DOMAIN st : st[k].f = i

\* C18: an archive handle is open exactly as long as the call of recurse
\* that opened it runs: it is closed in the step in which that call
\* returns or is left by an exception, never before and never again; and an
\* exception that leaves recurse goes on to end the run.
C18_ArchiveClosedOnTheWayOut ==
    [][/\ \A i \in DOMAIN handles' :
              handles'[i].role = "archive" =>
                  (handles'[i].open <=> HeldByFrame(stack', i))
       /\ \A i \in DOMAIN handles :
              handles[i].role = "archive" =>
                  /\ ~handles[i].open => ~handles'[i].open
                  /\ (handles[i].open /\ ~handles'[i].open) =>
                         HeldByFrame(stack, i) /\ ~HeldByFrame(stack', i)
       /\ (stack # <<>> /\ pc' = "aborted") =>
              /\ exc' # "none"
              /\ stack' = <<>>]_vars

\* An exception raised inside an archive has left recurse: the archive is
\* closed and the run has ended with the exception.
C18_Witness ==
    /\ pc = "aborted"
    /\ exc = "RuntimeError"
    /\ \E i \in DOMAIN handles :
           /\ handles[i].role = "archive"
           /\ ~handles[i].open
           /\ fs[handles[i].node].fault = "none"

\* The archive handles the bytes of the node p are read through: those of
\* the archives p lies in.
ArchivesAround(p) ==
    {i \in DOMAIN handles :
        /\ handles[i].role = "archive"
        /\ handles[i].node # p
        /\ is_prefix(handles[i].node, p)}

\* C19, as stated: whenever the merge reads a line of a stream that was
\* found inside an archive, every archive the stream lies in is open.
C19_ArchiveOpenWhenMergeReads ==
    [][(pc = "loop" /\ pc' = "group") =>
          \A i \in ArchivesAround(objs[streams[1]].path) :
              handles[i].open]_vars

\* C20, as stated: a peekline that follows a peekline, with no readline
\* between them, leaves current_line and current_time as the first left
\* them and returns the same text, whatever the line.
C20_PeeklineDoesNotConsume ==
    [][(objs[1].fresh /\ CursorPeek) =>
          /\ objs'[1].current_line = objs[1].current_line
          /\ objs'[1].current_time = objs[1].current_time
          /\ objs'[1].reader = objs[1].reader]_vars

\* What isoformat() makes of the instants.
ValidStamps == {isoformat(t) : t \in Instants}

\* The record of the timestamped line the continuation record i belongs
\* to: the last record before it that is no continuation record (0: none).
GroupHead(i) ==
    IF \E j \in 1..(i - 1) : ~emitted[j].cont
    THEN CHOOSE j \in 1..(i - 1) :
             /\ ~emitted[j].cont
             /\ \A k \in (j + 1)..(i - 1) : emitted[k].cont
    ELSE 0

\* C21: whenever the merge is about to read the head of the list, every
\* stream in the list has a current_time; every record yielded carries an
\* instant; the record of a timestamped line carries the instant of that
\* line, and a continuation record the instant of the last timestamped line
\* yielded before it, which is a line of the same stream.
C21_EveryRecordHasAnInstant ==
    /\ pc = "loop" =>
           \A k \in DOMAIN streams :
               objs[streams[k]].current_time \in Instants
    /\ \A i \in DOMAIN emitted :
           LET rec == emitted[i]
               line == TextOf(rec)[rec.lineno]
           IN  /\ rec.timestamp \in ValidStamps
               /\ ~rec.cont =>
                      /\ Stamped(line)
                      /\ rec.timestamp = isoformat(LineInstant(line))
               /\ rec.cont =>
                      /\ ~Stamped(line)
                      /\ GroupHead(i) > 0
                      /\ emitted[GroupHead(i)].src = rec.src
                      /\ emitted[GroupHead(i)].timestamp = rec.timestamp

\* A continuation record has been yielded with the instant of its group
\* after a record of the other stream with another instant.
C21_Witness ==
    \E i, j \in DOMAIN emitted :
        /\ i < j
        /\ emitted[j].cont
        /\ emitted[i].src # emitted[j].src
        /\ emitted[i].timestamp # emitted[j].timestamp

\* C22, as stated: whatever the streams, the merge comes to its end with
\* no stream left in the list.
C22_MergeEndsWithEmptyList == <>(pc = "done" /\ streams = <<>>)

\* C23: in every step of the loop of iterate_through_logs (the read of the
\* oldest stream, its continuation lines, the remove_finished_streams that
\* follows) every stream of the list but the oldest keeps its buffer, its
\* current_time and its reader as they were, place in the text included,
\* and stays in the list.
C23_OnlyOldestAdvances ==
    [][(pc = "loop" \/ pc = "group") =>
          \A k \in DOMAIN streams :
              streams[k] # oldest' =>
                  /\ objs'[streams[k]].current_line
                         = objs[streams[k]].current_line
                  /\ objs'[streams[k]].current_time
                         = objs[streams[k]].current_time
                  /\ objs'[streams[k]].reader = objs[streams[k]].reader
                  /\ PlaceIn(streams', streams[k]) > 0]_vars

\* Two lines or more of the oldest stream have been yielded and the list
\* cleaned again, while the other stream waits at its first line with
\* nothing yielded from it.
C23_Witness ==
    /\ pc = "loop"
    /\ Len(emitted) >= 2
    /\ \E k \in DOMAIN streams :
           /\ streams[k] # oldest
           /\ objs[streams[k]].reader.pos = 1
           /\ objs[streams[k]].current_line # <<>>
           /\ \A i \in DOMAIN emitted : emitted[i].src = oldest

\* The file a path names, whichever way the path is spelled.
Canonical(p) == IF p[1] = "/cwd" THEN Tail(p) ELSE p

\* C24, as stated: whatever the roots, the files are processed in the order
\* of their paths, and no file is processed twice: no two of the streams
\* the traversal returns are streams of one file.
C24_EachFileProcessedOnce ==
    /\ \A i, j \in DOMAIN paths : i < j => path_lt(paths[i], paths[j])
    /\ \A i, j \in DOMAIN result :
           i < j => Canonical(objs[result[i]].path)
                        # Canonical(objs[result[j]].path)

====
